---------------------------- MODULE Spec2Model ----------------------------
(***************************************************************************)
(* GT60 GPS server (src/unnamed/part_000) and GT60 device simulator        *)
(* (src/simulator.js).                                                     *)
(*                                                                         *)
(* A string is a sequence of character codes (charCodeAt values), so that  *)
(* trimming, splitting, slicing and the checksum are computed as the code  *)
(* computes them.  Display names and error messages, which the code never  *)
(* inspects character by character, are TLA+ strings.                      *)
(***************************************************************************)
EXTENDS Integers, Sequences, FiniteSets, TLC

VARIABLES
    conn,       \* conn[c]: "none" (not yet accepted), "open", "closed"
    received,   \* received[c]: the data events delivered on socket c, in order
    results,    \* results[c]: what the data handler produced, one record per parsePacket call
    written,    \* written[c]: the strings socket.write put on socket c, in order
    buffer,     \* the buffer field of the module-level parser instance
    now,        \* logical clock read by new Date()
    rt          \* the call under way in the specifications of single calls
                \* (a simulator-to-parser round trip, a checksum, a parse, a decode)

vars == <<conn, received, results, written, buffer, now, rt>>

(***************************************************************************)
(* Characters and string primitives                                        *)
(***************************************************************************)
PROTOCOL_START == 40    \* '('
PROTOCOL_END == 41      \* ')'
COMMA == 44             \* ','
DOT == 46               \* '.'

\* String.prototype.trim strips these code units from both ends.
WhiteSpace ==
    {9, 10, 11, 12, 13, 32, 160, 5760, 8232, 8233, 8239, 8287, 12288, 65279}
        \cup (8192..8202)

Digits == 48..57        \* \d : '0'..'9'

RECURSIVE TrimStart(_)
TrimStart(s) ==
    IF s # <<>> /\ Head(s) \in WhiteSpace THEN TrimStart(Tail(s)) ELSE s

RECURSIVE TrimEnd(_)
TrimEnd(s) ==
    IF s # <<>> /\ s[Len(s)] \in WhiteSpace
    THEN TrimEnd(SubSeq(s, 1, Len(s) - 1))
    ELSE s

Trim(s) == TrimEnd(TrimStart(s))

\* s.indexOf(ch) and s.lastIndexOf(ch), 0-based, -1 when absent.
RECURSIVE IndexFrom(_, _, _)
IndexFrom(s, ch, i) ==
    IF i > Len(s) THEN -1 ELSE IF s[i] = ch THEN i - 1 ELSE IndexFrom(s, ch, i + 1)

IndexOf(s, ch) == IndexFrom(s, ch, 1)

RECURSIVE LastIndexFrom(_, _, _)
LastIndexFrom(s, ch, i) ==
    IF i < 1 THEN -1 ELSE IF s[i] = ch THEN i - 1 ELSE LastIndexFrom(s, ch, i - 1)

LastIndexOf(s, ch) == LastIndexFrom(s, ch, Len(s))

\* s.substring(from, to) with 0-based indices; negative indices count as 0,
\* indices past the end as the length, and the two are swapped if from > to.
Substring(s, from, to) ==
    LET clamp(x) == IF x < 0 THEN 0 ELSE IF x > Len(s) THEN Len(s) ELSE x
        a == clamp(from)
        b == clamp(to)
        lo == IF a <= b THEN a ELSE b
        hi == IF a <= b THEN b ELSE a
    IN  SubSeq(s, lo + 1, hi)

\* s.split(','): "" splits into one empty part.
RECURSIVE Split(_)
Split(s) ==
    LET i == IndexOf(s, COMMA)
    IN  IF i = -1
        THEN <<s>>
        ELSE <<SubSeq(s, 1, i)>> \o Split(SubSeq(s, i + 2, Len(s)))

\* parts.join(',')
RECURSIVE Join(_)
Join(parts) ==
    IF parts = <<>> THEN <<>>
    ELSE IF Len(parts) = 1 THEN parts[1]
    ELSE parts[1] \o <<COMMA>> \o Join(Tail(parts))

StartsWith(s, ch) == s # <<>> /\ s[1] = ch
EndsWith(s, ch) == s # <<>> /\ s[Len(s)] = ch

(***************************************************************************)
(* Checksum: sum of the character codes, & 0xFFFF, as 4 upper-case hex     *)
(* digits.                                                                 *)
(***************************************************************************)
\* sum of data.charCodeAt(i) for i < n
RECURSIVE SumUpTo(_, _)
SumUpTo(s, n) == IF n = 0 THEN 0 ELSE SumUpTo(s, n - 1) + s[n]

SumCodes(s) == SumUpTo(s, Len(s))

HexDigit(d) == IF d < 10 THEN 48 + d ELSE 55 + d      \* '0'..'9', 'A'..'F'

\* n.toString(16).toUpperCase()
RECURSIVE ToHex(_)
ToHex(n) == IF n < 16 THEN <<HexDigit(n)>> ELSE ToHex(n \div 16) \o <<HexDigit(n % 16)>>

\* The hex digits without padding.
PadStartNone(s) == s

\* s.padStart(4, '0')
RECURSIVE PadStart4(_)
PadStart4(s) == IF Len(s) >= 4 THEN s ELSE PadStart4(<<48>> \o s)

calculateChecksum(data) == PadStart4(ToHex(SumCodes(data) % 65536))

simCalculateChecksum(data) == PadStart4(ToHex(SumCodes(data) % 65536))

(***************************************************************************)
(* Command table                                                           *)
(***************************************************************************)
BP(a, b) == <<66, 80, 48 + a, 48 + b>>      \* "BPab"
BR(a, b) == <<66, 82, 48 + a, 48 + b>>      \* "BRab"

\* The own keys of the table.
COMMAND_TYPES ==
    (BP(0, 0) :> "Heartbeat") @@ (BP(0, 1) :> "Login") @@
    (BP(0, 2) :> "Position Report") @@ (BP(0, 3) :> "Alarm Report") @@
    (BP(0, 4) :> "Status Report") @@ (BP(0, 5) :> "String Info") @@
    (BP(1, 0) :> "GPS Info") @@ (BP(1, 1) :> "LBS Info") @@
    (BP(1, 2) :> "WiFi Info") @@ (BP(1, 3) :> "Address Info") @@
    (BP(1, 5) :> "Time Info") @@ (BP(2, 0) :> "Step Count") @@
    (BP(2, 1) :> "Sleep Info") @@ (BP(2, 2) :> "Heart Rate") @@
    (BP(2, 3) :> "Blood Pressure") @@ (BP(2, 4) :> "Temperature") @@
    (BP(2, 5) :> "Blood Oxygen") @@ (BR(0, 0) :> "Response to command") @@
    (BR(0, 1) :> "Configuration response")

\* COMMAND_TYPES is a plain object: a lookup that finds no own key goes on to
\* Object.prototype, whose members (functions, and the prototype itself for
\* '__proto__') are all truthy.
ObjectPrototypeKeys ==
    {<<99, 111, 110, 115, 116, 114, 117, 99, 116, 111, 114>>,
     <<116, 111, 83, 116, 114, 105, 110, 103>>,
     <<118, 97, 108, 117, 101, 79, 102>>,
     <<104, 97, 115, 79, 119, 110, 80, 114, 111, 112, 101, 114, 116, 121>>,
     <<105, 115, 80, 114, 111, 116, 111, 116, 121, 112, 101, 79, 102>>,
     <<112, 114, 111, 112, 101, 114, 116, 121, 73, 115, 69, 110, 117, 109, 101, 114, 97, 98, 108, 101>>,
     <<116, 111, 76, 111, 99, 97, 108, 101, 83, 116, 114, 105, 110, 103>>,
     <<95, 95, 112, 114, 111, 116, 111, 95, 95>>,
     <<95, 95, 100, 101, 102, 105, 110, 101, 71, 101, 116, 116, 101, 114, 95, 95>>,
     <<95, 95, 100, 101, 102, 105, 110, 101, 83, 101, 116, 116, 101, 114, 95, 95>>,
     <<95, 95, 108, 111, 111, 107, 117, 112, 71, 101, 116, 116, 101, 114, 95, 95>>,
     <<95, 95, 108, 111, 111, 107, 117, 112, 83, 101, 116, 116, 101, 114, 95, 95>>}

InheritedMember == "[Object.prototype member]"

\* COMMAND_TYPES[command] || 'Unknown'
CommandName(command) ==
    IF command \in DOMAIN COMMAND_TYPES THEN COMMAND_TYPES[command]
    ELSE IF command \in ObjectPrototypeKeys THEN InheritedMember
    ELSE "Unknown"

\* parts.slice(2): the last part kept among the fields.
DataFieldsKeepLast(parts) == SubSeq(parts, 3, Len(parts))

\* parts.slice(2, -1): all parts after the command except the last.
DataFields(parts) == SubSeq(parts, 3, Len(parts) - 1)

(***************************************************************************)
(* GT60PacketParser.parsePacket                                            *)
(***************************************************************************)
\* new Date().toISOString() at instant t: a sequence no string of character
\* codes can equal.
IsoString(t) == <<-2, t>>

\* /^\d{15}/.test(imei): the pattern without its end anchor.
ValidImeiPrefix(imei) == Len(imei) >= 15 /\ \A i \in 1..15 : imei[i] \in Digits

\* /^\d{15}$/.test(imei)
ValidImei(imei) == Len(imei) = 15 /\ \A i \in 1..Len(imei) : imei[i] \in Digits

\* The catch block: the error message with the data as it was handed in.
ParseErrorTrimmedRaw(message, data, t) ==
    [error |-> message, rawData |-> Trim(data), timestamp |-> IsoString(t)]

ParseError(message, data, t) ==
    [error |-> message, rawData |-> data, timestamp |-> IsoString(t)]

\* The text the checksum is computed over: content up to the last comma.
ChecksumInputFirstComma(content) == Substring(content, 0, IndexOf(content, COMMA))

ChecksumInput(content) == Substring(content, 0, LastIndexOf(content, COMMA))

\* A variant of parsePacket that validates the IMEI before it counts the parts.
parsePacketImeiFirst(data, t) ==
    LET packet == Trim(data)
        content == SubSeq(packet, 2, Len(packet) - 1)
        parts == Split(content)
        calculatedChecksum == calculateChecksum(ChecksumInput(content))
    IN  IF ~StartsWith(packet, PROTOCOL_START) \/ ~EndsWith(packet, PROTOCOL_END)
        THEN ParseError("Invalid packet format - missing start/end markers", data, t)
        ELSE IF ~ValidImei(parts[1])
        THEN ParseError("Invalid IMEI format", data, t)
        ELSE IF Len(parts) < 3
        THEN ParseError("Invalid packet format - insufficient data", data, t)
        ELSE [imei |-> parts[1],
              command |-> parts[2],
              commandName |-> CommandName(parts[2]),
              data |-> DataFields(parts),
              checksum |-> parts[Len(parts)],
              calculatedChecksum |-> calculatedChecksum,
              isValid |-> (calculatedChecksum = parts[Len(parts)]),
              timestamp |-> IsoString(t)]

parsePacket(data, t) ==
    LET packet == Trim(data)
        content == SubSeq(packet, 2, Len(packet) - 1)       \* packet.slice(1, -1)
        parts == Split(content)
        imei == parts[1]
        command == parts[2]
        dataFields == DataFields(parts)
        receivedChecksum == parts[Len(parts)]
        calculatedChecksum == calculateChecksum(ChecksumInput(content))
    IN  IF ~StartsWith(packet, PROTOCOL_START) \/ ~EndsWith(packet, PROTOCOL_END)
        THEN ParseError("Invalid packet format - missing start/end markers", data, t)
        ELSE IF Len(parts) < 3
        THEN ParseError("Invalid packet format - insufficient data", data, t)
        ELSE IF ~ValidImei(imei)
        THEN ParseError("Invalid IMEI format", data, t)
        ELSE [imei |-> imei,
              command |-> command,
              commandName |-> CommandName(command),
              data |-> dataFields,
              checksum |-> receivedChecksum,
              calculatedChecksum |-> calculatedChecksum,
              isValid |-> (calculatedChecksum = receivedChecksum),
              timestamp |-> IsoString(t)]

HasError(parsedPacket) == "error" \in DOMAIN parsedPacket


(***************************************************************************)
(* Values of the decoders.  A number is the exact rational num/den with    *)
(* den > 0 in lowest terms; NaN is the pair with den = 0.  undefined (an   *)
(* index past the end of the field array) and the ISO string of an instant *)
(* are sequences no string of character codes can equal.                   *)
(***************************************************************************)
Undefined == <<-1>>
Unknown == <<85, 110, 107, 110, 111, 119, 110>>      \* 'Unknown'

\* data[i], 0-based
At(data, i) == IF i + 1 <= Len(data) THEN data[i + 1] ELSE Undefined

\* !x for a string or undefined
Falsy(x) == x = Undefined \/ x = <<>>

RECURSIVE GCD(_, _)
GCD(a, b) == IF b = 0 THEN a ELSE GCD(b, a % b)

NaN == [num |-> 0, den |-> 0]
IsNaN(x) == x.den = 0
Rat(n, d) ==
    LET g == GCD(IF n < 0 THEN -n ELSE n, d)
    IN  [num |-> n \div g, den |-> d \div g]
Zero == Rat(0, 1)
NumAdd(x, y) ==
    IF IsNaN(x) \/ IsNaN(y) THEN NaN
    ELSE Rat(x.num * y.den + y.num * x.den, x.den * y.den)
NumDiv(x, k) == IF IsNaN(x) THEN NaN ELSE Rat(x.num, x.den * k)
NumNeg(x) == IF IsNaN(x) THEN NaN ELSE [num |-> -x.num, den |-> x.den]
\* x || 0 for a number: NaN and 0 are falsy
OrZero(x) == IF IsNaN(x) \/ x.num = 0 THEN Zero ELSE x

\* The longest prefix of s made of characters of set S.
RECURSIVE PrefixIn(_, _)
PrefixIn(s, S) ==
    IF s # <<>> /\ Head(s) \in S THEN <<Head(s)>> \o PrefixIn(Tail(s), S) ELSE <<>>

Drop(s, n) == SubSeq(s, n + 1, Len(s))

HexLetters == (65..70) \cup (97..102)
DigitValue(c) == IF c \in Digits THEN c - 48 ELSE IF c >= 97 THEN c - 87 ELSE c - 55

RECURSIVE ValueIn(_, _)
ValueIn(ds, radix) ==
    IF ds = <<>> THEN 0
    ELSE ValueIn(SubSeq(ds, 1, Len(ds) - 1), radix) * radix + DigitValue(ds[Len(ds)])

RECURSIVE Pow10(_)
Pow10(k) == IF k = 0 THEN 1 ELSE 10 * Pow10(k - 1)

\* parseInt(x) without a radix: leading white space, a sign, a 0x/0X prefix
\* (radix 16), then the longest run of digits; NaN when there is none.
ParseInt(x) ==
    IF x = Undefined THEN NaN
    ELSE
    LET s == TrimStart(x)
        neg == s # <<>> /\ s[1] = 45
        body == IF s # <<>> /\ s[1] \in {43, 45} THEN Tail(s) ELSE s
        hex == Len(body) >= 2 /\ body[1] = 48 /\ body[2] \in {88, 120}
        ds == IF hex THEN PrefixIn(Drop(body, 2), Digits \cup HexLetters)
              ELSE PrefixIn(body, Digits)
        v == ValueIn(ds, IF hex THEN 16 ELSE 10)
    IN  IF ds = <<>> THEN NaN ELSE Rat(IF neg THEN -v ELSE v, 1)

\* parseFloat(x): leading white space, a sign, digits, a fraction; NaN when
\* neither an integer nor a fraction digit is there.  (Exponents and
\* "Infinity" are outside the field alphabet of this model.)
ParseFloat(x) ==
    IF x = Undefined THEN NaN
    ELSE
    LET s == TrimStart(x)
        neg == s # <<>> /\ s[1] = 45
        body == IF s # <<>> /\ s[1] \in {43, 45} THEN Tail(s) ELSE s
        int == PrefixIn(body, Digits)
        rest == Drop(body, Len(int))
        frac == IF rest # <<>> /\ rest[1] = DOT THEN PrefixIn(Tail(rest), Digits) ELSE <<>>
        v == ValueIn(int \o frac, 10)
    IN  IF int = <<>> /\ frac = <<>> THEN NaN
        ELSE Rat(IF neg THEN -v ELSE v, Pow10(Len(frac)))

(***************************************************************************)
(* GT60PacketParser.parseCommandData and the per-command decoders          *)
(***************************************************************************)
OrUnknown(x) == IF Falsy(x) THEN Unknown ELSE x

parseCoordinate(coord, direction) ==
    IF Falsy(coord) \/ Falsy(direction) THEN Zero
    ELSE
    LET dot == IndexOf(coord, DOT)
        degrees == ParseFloat(Substring(coord, 0, dot - 2))
        minutes == ParseFloat(Substring(coord, dot - 2, Len(coord)))
        decimal == NumAdd(degrees, NumDiv(minutes, 60))
    IN  IF direction = <<83>> \/ direction = <<87>>      \* 'S', 'W'
        THEN NumNeg(decimal)
        ELSE decimal

parseLoginData(data) ==
    [kind |-> "Login",
     deviceType |-> OrUnknown(At(data, 0)),
     firmwareVersion |-> OrUnknown(At(data, 1)),
     protocol |-> OrUnknown(At(data, 2))]

\* A variant of parsePositionData that falls back to the raw fields unless
\* the field it reads last, data[10], is there.
parsePositionDataNeedsHdop(data) ==
    IF Len(data) < 11 THEN [kind |-> "Raw", rawData |-> data]
    ELSE
    [kind |-> "Position",
     datetime |-> At(data, 0),
     gpsFix |-> IF At(data, 1) = <<65>> THEN "Valid" ELSE "Invalid",
     latitude |-> parseCoordinate(At(data, 2), At(data, 3)),
     longitude |-> parseCoordinate(At(data, 4), At(data, 5)),
     speed |-> OrZero(ParseFloat(At(data, 6))),
     course |-> OrZero(ParseFloat(At(data, 7))),
     altitude |-> OrZero(ParseFloat(At(data, 8))),
     satellites |-> OrZero(ParseInt(At(data, 9))),
     hdop |-> OrZero(ParseFloat(At(data, 10)))]

parsePositionData(data) ==
    IF Len(data) < 10 THEN [kind |-> "Raw", rawData |-> data]
    ELSE
    [kind |-> "Position",
     datetime |-> At(data, 0),
     gpsFix |-> IF At(data, 1) = <<65>> THEN "Valid" ELSE "Invalid",
     latitude |-> parseCoordinate(At(data, 2), At(data, 3)),
     longitude |-> parseCoordinate(At(data, 4), At(data, 5)),
     speed |-> OrZero(ParseFloat(At(data, 6))),
     course |-> OrZero(ParseFloat(At(data, 7))),
     altitude |-> OrZero(ParseFloat(At(data, 8))),
     satellites |-> OrZero(ParseInt(At(data, 9))),
     hdop |-> OrZero(ParseFloat(At(data, 10)))]

parseAlarmData(data) ==
    [kind |-> "Alarm",
     alarmType |-> OrUnknown(At(data, 0)),
     datetime |-> At(data, 1),
     location |-> IF Len(data) > 2 THEN Drop(data, 2) ELSE <<>>]

parseGPSData(data) ==
    [kind |-> "GPS",
     satelliteCount |-> OrZero(ParseInt(At(data, 0))),
     signalStrength |-> OrZero(ParseInt(At(data, 1))),
     accuracy |-> OrZero(ParseFloat(At(data, 2)))]

parseLBSData(data) ==
    [kind |-> "LBS",
     mcc |-> OrUnknown(At(data, 0)),
     mnc |-> OrUnknown(At(data, 1)),
     lac |-> OrUnknown(At(data, 2)),
     cellId |-> OrUnknown(At(data, 3)),
     signalStrength |-> OrZero(ParseInt(At(data, 4)))]

parseStepData(data) ==
    [kind |-> "Step",
     stepCount |-> OrZero(ParseInt(At(data, 0))),
     calories |-> OrZero(ParseFloat(At(data, 1))),
     distance |-> OrZero(ParseFloat(At(data, 2)))]

parseHeartRateData(data, t) ==
    [kind |-> "HeartRate",
     heartRate |-> OrZero(ParseInt(At(data, 0))),
     measureTime |-> IF Falsy(At(data, 1)) THEN IsoString(t) ELSE At(data, 1)]

parseCommandData(command, data, t) ==
    IF command = BP(0, 1) THEN parseLoginData(data)
    ELSE IF command = BP(0, 2) THEN parsePositionData(data)
    ELSE IF command = BP(0, 3) THEN parseAlarmData(data)
    ELSE IF command = BP(1, 0) THEN parseGPSData(data)
    ELSE IF command = BP(1, 1) THEN parseLBSData(data)
    ELSE IF command = BP(2, 0) THEN parseStepData(data)
    ELSE IF command = BP(2, 2) THEN parseHeartRateData(data, t)
    ELSE [kind |-> "Raw", rawData |-> data]

(***************************************************************************)
(* GT60Simulator.sendPacket: the packet the simulator writes to its socket *)
(***************************************************************************)
sendPacket(imei, command, data) ==
    LET content == Join(<<imei, command>> \o data)
        checksum == simCalculateChecksum(content)
    IN  <<PROTOCOL_START>> \o content \o <<COMMA>> \o checksum \o <<PROTOCOL_END>>

(***************************************************************************)
(* The TCP server's data handler                                           *)
(***************************************************************************)
\* `(${parsedPacket.imei},BR00,OK)`
\* A variant of the acknowledgment that names a fixed device.
AckMessageFixedImei(imei) ==
    <<PROTOCOL_START>> \o <<49, 50, 51, 52, 53, 54, 55, 56, 57, 48, 49, 50, 51, 52, 53>>
    \o <<COMMA>> \o BR(0, 0) \o <<COMMA, 79, 75, PROTOCOL_END>>

AckMessage(imei) ==
    <<PROTOCOL_START>> \o imei \o <<COMMA>> \o BR(0, 0) \o <<COMMA, 79, 75, PROTOCOL_END>>

\* What the handler writes to the socket for one parsed packet: nothing on
\* the error branch, the acknowledgment otherwise.
AckWritesOnlyIfValid(parsedPacket) ==
    IF HasError(parsedPacket) \/ ~parsedPacket.isValid
    THEN <<>>
    ELSE <<AckMessage(parsedPacket.imei)>>

\* A variant that writes the acknowledgment once per part of the packet's data.
AckWritesPerField(parsedPacket) ==
    IF HasError(parsedPacket) THEN <<>>
    ELSE [i \in 1..Len(parsedPacket.data) |-> AckMessage(parsedPacket.imei)]

AckWrites(parsedPacket) ==
    IF HasError(parsedPacket) THEN <<>> ELSE <<AckMessage(parsedPacket.imei)>>

NoData == [kind |-> "None"]

\* One run of the data callback on `data` at instant t: the parsed packet,
\* the decoded command data (none on the error branch) and the socket writes.
HandleData(data, t) ==
    LET parsedPacket == parsePacket(data, t)
    IN  [parsed |-> parsedPacket,
         commandData |-> IF HasError(parsedPacket) THEN NoData
                         ELSE parseCommandData(parsedPacket.command, parsedPacket.data, t),
         writes |-> AckWrites(parsedPacket)]

\* The socket the acknowledgment is written to: the callback's own socket.
AckTargetShared(c) == 1

AckTarget(c) == c

\* parser.buffer after a parsePacket call: parsePacket never assigns it.
BufferAccumulate(buf, data) == buf \o data

\* A variant in which the parser keeps the text it parsed last.
BufferKeepLast(buf, data) == data

BufferAfter(buf, data) == buf

(***************************************************************************)
(* Bounds and inputs                                                       *)
(***************************************************************************)
MaxArrivals == 3        \* data events over all connections
SplitAt == 10           \* where a frame is cut when it arrives in two pieces
MaxFields == 2          \* data fields of a round-trip packet
CkMaxLen == 3           \* characters of a text handed to the checksum functions
PsMaxRest == 3          \* parts after the first of a text handed to the parser
DcMaxFields == 11       \* fields handed to the command decoder

Conns == {1, 2}

Imei1 == <<49, 50, 51, 52, 53, 54, 55, 56, 57, 48, 49, 50, 51, 52, 53>>   \* '123456789012345'
Imei2 == <<56, 54, 49, 50, 51, 52, 53, 54, 55, 56, 57, 48, 49, 50, 51>>   \* '861234567890123'

\* sendLoginPacket: sendPacket('BP01', 'GT60', 'V1.0', '1.0')
LoginFrame ==
    sendPacket(Imei1, BP(0, 1), << <<71, 84, 54, 48>>, <<86, 49, DOT, 48>>, <<49, DOT, 48>> >>)

\* A heartbeat of a second device, without a data field.
HeartbeatFrame == sendPacket(Imei2, BP(0, 0), <<>>)

WellFormedFrames == {LoginFrame, HeartbeatFrame}

CrLf == <<13, 10>>

\* HeartbeatFrame with the checksum field replaced by '0000'
BadChecksumFrame ==
    <<PROTOCOL_START>> \o Join(<<Imei2, BP(0, 0), <<48, 48, 48, 48>> >>) \o <<PROTOCOL_END>>

\* imei and command only
TwoPartFrame == <<PROTOCOL_START>> \o Join(<<Imei1, BP(0, 0)>>) \o <<PROTOCOL_END>>

\* a 14-digit IMEI
ShortImeiFrame ==
    <<PROTOCOL_START>> \o Join(<<Tail(Imei1), BP(0, 0), <<48, 48, 48, 48>> >>) \o <<PROTOCOL_END>>

Arrivals ==
    WellFormedFrames
    \cup {LoginFrame \o HeartbeatFrame}                 \* two frames in one segment
    \cup {SubSeq(HeartbeatFrame, 1, SplitAt),           \* one frame in two segments
          Drop(HeartbeatFrame, SplitAt)}
    \cup {BadChecksumFrame \o CrLf}                     \* checksum mismatch, line end
    \cup {TwoPartFrame \o CrLf}                         \* too few parts, line end
    \cup {ShortImeiFrame}

RtImeis == {Imei1, Imei2, [i \in 1..15 |-> 48], [i \in 1..15 |-> 57]}
RtCommands == {BP(0, 0), BP(0, 1), BP(2, 2), <<90, 90, 57, 57>>, <<>>}
RtFieldValues == {<<>>, <<65>>, <<48, DOT, 56>>, <<PROTOCOL_END>>, <<32>>}
RtFieldSeqs == UNION {[1..k -> RtFieldValues] : k \in 0..MaxFields}

(***************************************************************************)
(* State machine of the server                                             *)
(***************************************************************************)
RtIdle == [pc |-> "idle"]

Init ==
    /\ conn = [c \in Conns |-> "none"]
    /\ received = [c \in Conns |-> <<>>]
    /\ results = [c \in Conns |-> <<>>]
    /\ written = [c \in Conns |-> <<>>]
    /\ buffer = <<>>
    /\ now = 0
    /\ rt = RtIdle

\* net.createServer callback: a device connected, the handlers are registered.
Accept(c) ==
    /\ conn[c] = "none"
    /\ conn' = [conn EXCEPT ![c] = "open"]
    /\ UNCHANGED <<received, results, written, buffer, now, rt>>

\* A variant of OnData in which a parse error destroys the socket.
OnDataFatalError(c, data) ==
    LET r == HandleData(data, now)
    IN  /\ conn[c] = "open"
        /\ now < MaxArrivals
        /\ received' = [received EXCEPT ![c] = Append(@, data)]
        /\ results' = [results EXCEPT ![c] = Append(@, r)]
        /\ written' = [written EXCEPT ![AckTarget(c)] = @ \o r.writes]
        /\ buffer' = BufferAfter(buffer, data)
        /\ now' = now + 1
        /\ conn' = IF HasError(r.parsed) THEN [conn EXCEPT ![c] = "closed"] ELSE conn
        /\ UNCHANGED rt

\* socket.on('data'): the whole callback, run to completion on one arrival.
OnData(c, data) ==
    LET r == HandleData(data, now)
    IN  /\ conn[c] = "open"
        /\ now < MaxArrivals
        /\ received' = [received EXCEPT ![c] = Append(@, data)]
        /\ results' = [results EXCEPT ![c] = Append(@, r)]
        /\ written' = [written EXCEPT ![AckTarget(c)] = @ \o r.writes]
        /\ buffer' = BufferAfter(buffer, data)
        /\ now' = now + 1
        /\ UNCHANGED <<conn, rt>>

\* socket.on('close'): no further data events on this socket.
OnClose(c) ==
    /\ conn[c] = "open"
    /\ conn' = [conn EXCEPT ![c] = "closed"]
    /\ UNCHANGED <<received, results, written, buffer, now, rt>>

Next ==
    \/ \E c \in Conns : Accept(c)
    \/ \E c \in Conns : \E data \in Arrivals : OnData(c, data)
    \/ \E c \in Conns : OnClose(c)

Spec == Init /\ [][Next]_vars

(***************************************************************************)
(* Round trip of one simulator packet through the server's handler         *)
(***************************************************************************)
RtInit ==
    /\ conn = [c \in Conns |-> "none"]
    /\ received = [c \in Conns |-> <<>>]
    /\ results = [c \in Conns |-> <<>>]
    /\ written = [c \in Conns |-> <<>>]
    /\ buffer = <<>>
    /\ now = 0
    /\ \E i \in RtImeis : \E cmd \in RtCommands : \E f \in RtFieldSeqs :
           rt = [pc |-> "start", imei |-> i, command |-> cmd, fields |-> f]

\* The simulator builds the packet and writes it to its socket.
RtSend ==
    /\ rt.pc = "start"
    /\ rt' = [pc |-> "sent", imei |-> rt.imei, command |-> rt.command, fields |-> rt.fields,
              packet |-> sendPacket(rt.imei, rt.command, rt.fields)]
    /\ UNCHANGED <<conn, received, results, written, buffer, now>>

\* The packet arrives at the server as one data event.
RtReceive ==
    /\ rt.pc = "sent"
    /\ rt' = [pc |-> "done", imei |-> rt.imei, command |-> rt.command, fields |-> rt.fields,
              packet |-> rt.packet, result |-> HandleData(rt.packet, now)]
    /\ UNCHANGED <<conn, received, results, written, buffer, now>>

RtNext == RtSend \/ RtReceive

SpecRT == RtInit /\ [][RtNext]_vars

(***************************************************************************)
(* One text handed to the server's and to the simulator's checksum         *)
(* function.  The characters are UTF-16 code units, 0 to 65535.            *)
(***************************************************************************)
CkChars == {1, 10, 65, 4096, 65535}
CkTexts == UNION {[1..n -> CkChars] : n \in 0..CkMaxLen}

CkInit ==
    /\ conn = [c \in Conns |-> "none"]
    /\ received = [c \in Conns |-> <<>>]
    /\ results = [c \in Conns |-> <<>>]
    /\ written = [c \in Conns |-> <<>>]
    /\ buffer = <<>>
    /\ now = 0
    /\ \E text \in CkTexts : rt = [pc |-> "text", text |-> text]

\* parser.calculateChecksum(text)
CkServer ==
    /\ rt.pc = "text"
    /\ rt' = [pc |-> "server", text |-> rt.text, server |-> calculateChecksum(rt.text)]
    /\ UNCHANGED <<conn, received, results, written, buffer, now>>

\* simulator.calculateChecksum(text)
CkSimulator ==
    /\ rt.pc = "server"
    /\ rt' = [pc |-> "both", text |-> rt.text, server |-> rt.server,
              sim |-> simCalculateChecksum(rt.text)]
    /\ UNCHANGED <<conn, received, results, written, buffer, now>>

CkNext == CkServer \/ CkSimulator

SpecCk == CkInit /\ [][CkNext]_vars

(***************************************************************************)
(* One text handed to the data handler.  The text is put together from a   *)
(* first part, further comma-free parts, an optional last part holding the *)
(* right checksum, the two markers (each present or not) and surrounding   *)
(* white space (present or not).                                           *)
(***************************************************************************)
PsFirstParts ==
    {Imei1,
     Tail(Imei1),                                       \* 14 digits
     Imei1 \o <<48>>,                                   \* 16 digits
     [Imei1 EXCEPT ![8] = 65],                          \* a letter among 15 characters
     [Imei1 EXCEPT ![1] = 1633],                        \* U+0661, a digit outside ASCII
     [Imei1 EXCEPT ![15] = 10],                         \* 14 digits and a line feed
     <<>>}
PsParts == {BP(0, 0), <<90, 90, 57, 57>>, <<99, 111, 110, 115, 116, 114, 117, 99, 116, 111, 114>>, <<>>}
PsRests == UNION {[1..k -> PsParts] : k \in 0..PsMaxRest}

PsText(parts, open, close, pad) ==
    (IF pad THEN <<32>> ELSE <<>>)
    \o (IF open THEN <<PROTOCOL_START>> ELSE <<>>)
    \o Join(parts)
    \o (IF close THEN <<PROTOCOL_END>> ELSE <<>>)
    \o (IF pad THEN CrLf ELSE <<>>)

PsInit ==
    /\ conn = [c \in Conns |-> "none"]
    /\ received = [c \in Conns |-> <<>>]
    /\ results = [c \in Conns |-> <<>>]
    /\ written = [c \in Conns |-> <<>>]
    /\ buffer = <<>>
    /\ now = 0
    /\ \E first \in PsFirstParts : \E rest \in PsRests : \E sum \in BOOLEAN :
       \E open \in BOOLEAN : \E close \in BOOLEAN : \E pad \in BOOLEAN :
           LET body == <<first>> \o rest
               parts == IF sum THEN body \o <<simCalculateChecksum(Join(body))>> ELSE body
           IN  rt = [pc |-> "data", parts |-> parts, open |-> open, close |-> close,
                     data |-> PsText(parts, open, close, pad)]

\* The data callback run on the text: parsePacket, then on success
\* parseCommandData and the acknowledgment.
PsHandle ==
    /\ rt.pc = "data"
    /\ rt' = [pc |-> "handled", parts |-> rt.parts, open |-> rt.open, close |-> rt.close,
              data |-> rt.data, result |-> HandleData(rt.data, now)]
    /\ UNCHANGED <<conn, received, results, written, buffer, now>>

PsNext == PsHandle

SpecPs == PsInit /\ [][PsNext]_vars

(***************************************************************************)
(* One command and field array handed to parseCommandData.  The fields are *)
(* a prefix of: first, fix, latitude, hemisphere, longitude, 'E', and then *)
(* one numeric field repeated.                                             *)
(***************************************************************************)
DcCommands ==
    {BP(0, 1), BP(0, 2), BP(0, 3), BP(1, 0), BP(1, 1), BP(2, 0), BP(2, 2),
     BP(0, 0), <<90, 90, 57, 57>>}
DcFirsts == {<<49, 50>>, <<120>>, <<>>}                     \* '12', 'x', ''
DcFixes == {<<65>>, <<86>>}                                 \* 'A', 'V'
DcCoords == {<<51, 49, 49, 54, DOT, 55, 56, 52, 53>>, <<53, DOT, 53>>, <<97, 98, 99>>, <<>>}              \* '3116.7845', '5.5', 'abc', ''
DcHemispheres == {<<78>>, <<83>>, <<>>}                     \* 'N', 'S', ''
DcNumbers == {<<48, 52, 53, DOT, 53>>, <<120>>}             \* '045.5', 'x'
DcLongitude == <<49, 50, 49, 50, 50, DOT, 55, 56, 52, 53>>                                       \* '12122.7845'

DcFields(n, first, fix, coord, hemisphere, number) ==
    [i \in 1..n |->
        IF i = 1 THEN first
        ELSE IF i = 2 THEN fix
        ELSE IF i = 3 THEN coord
        ELSE IF i = 4 THEN hemisphere
        ELSE IF i = 5 THEN DcLongitude
        ELSE IF i = 6 THEN <<69>>
        ELSE number]

DcInit ==
    /\ conn = [c \in Conns |-> "none"]
    /\ received = [c \in Conns |-> <<>>]
    /\ results = [c \in Conns |-> <<>>]
    /\ written = [c \in Conns |-> <<>>]
    /\ buffer = <<>>
    /\ now = 0
    /\ \E command \in DcCommands : \E n \in 0..DcMaxFields :
       \E first \in DcFirsts : \E fix \in DcFixes : \E coord \in DcCoords :
       \E hemisphere \in DcHemispheres : \E number \in DcNumbers :
           rt = [pc |-> "fields", command |-> command,
                 fields |-> DcFields(n, first, fix, coord, hemisphere, number)]

\* parser.parseCommandData(command, fields)
DcDecode ==
    /\ rt.pc = "fields"
    /\ rt' = [pc |-> "decoded", command |-> rt.command, fields |-> rt.fields,
              payload |-> parseCommandData(rt.command, rt.fields, now)]
    /\ UNCHANGED <<conn, received, results, written, buffer, now>>

DcNext == DcDecode

SpecDc == DcInit /\ [][DcNext]_vars

(***************************************************************************)
(* Properties                                                              *)
(*                                                                         *)
(* FramesIn is the framing the specification describes: the spans from a   *)
(* start marker to the next end marker, in order, over the bytes of a      *)
(* connection taken as one stream.                                         *)
(***************************************************************************)
RECURSIVE Concat(_)
Concat(ss) == IF ss = <<>> THEN <<>> ELSE Head(ss) \o Concat(Tail(ss))

RECURSIVE FramesIn(_)
FramesIn(b) ==
    LET i == IndexOf(b, PROTOCOL_START)
        rest == Drop(b, i)
        j == IndexOf(rest, PROTOCOL_END)
    IN  IF i = -1 \/ j = -1 THEN <<>>
        ELSE <<SubSeq(rest, 1, j + 1)>> \o FramesIn(Drop(rest, j + 1))

\* The acknowledgments owed to a sequence of frames: one per frame that parses.
RECURSIVE AcksOwed(_)
AcksOwed(frames) ==
    IF frames = <<>> THEN <<>>
    ELSE LET p == parsePacket(Head(frames), 0)
         IN  (IF HasError(p) THEN <<>> ELSE <<AckMessage(p.imei)>>) \o AcksOwed(Tail(frames))

ExpectedAcks(c) == AcksOwed(FramesIn(Concat(received[c])))

Count(seq, x) == Cardinality({i \in DOMAIN seq : seq[i] = x})
Range(seq) == {seq[i] : i \in DOMAIN seq}

\* The parsed packet p is the packet of frame f (the capture time aside).
IsPacketOf(p, f) ==
    LET q == parsePacket(f, 0)
    IN  /\ ~HasError(p)
        /\ ~HasError(q)
        /\ p.imei = q.imei /\ p.command = q.command /\ p.data = q.data
        /\ p.checksum = q.checksum /\ p.isValid = q.isValid

ParsedOk(c) == {i \in DOMAIN results[c] : ~HasError(results[c][i].parsed)}
InstantOf(r) == r.parsed.timestamp[2]

ErrorKinds ==
    {"Invalid packet format - missing start/end markers",
     "Invalid packet format - insufficient data",
     "Invalid IMEI format"}

\* C1: on every connection the acknowledgments written are, counted with
\* multiplicity, exactly one (<imei>,BR00,OK) per complete frame of the
\* connection's arrivals that parses, and nothing else.
C1_AckPerParsedFrame ==
    \A c \in Conns :
        /\ Len(written[c]) = Len(ExpectedAcks(c))
        /\ \A a \in Range(written[c]) \cup Range(ExpectedAcks(c)) :
               Count(written[c], a) = Count(ExpectedAcks(c), a)

\* C2: one arrival made of two complete frames back to back yields exactly
\* two parsed packets, the first frame's and then the second's.
C2_TwoFramesEmitted ==
    \A c \in Conns : \A f \in WellFormedFrames : \A g \in WellFormedFrames :
        received[c] = <<f \o g>> =>
            /\ Len(results[c]) = 2
            /\ IsPacketOf(results[c][1].parsed, f)
            /\ IsPacketOf(results[c][2].parsed, g)

\* C3: when a well-formed frame arrives in two pieces, the first piece yields
\* no packet, no parse error and no acknowledgment and is kept in the buffer;
\* the second piece yields exactly the frame's packet and its acknowledgment.
C3_SplitFrameReassembled ==
    \A c \in Conns : \A f \in WellFormedFrames : \A k \in 1..(Len(f) - 1) :
        LET head == SubSeq(f, 1, k)
            tail == Drop(f, k)
        IN  /\ received[c] = <<head>> =>
                /\ results[c] = <<>>
                /\ written[c] = <<>>
                /\ (\A d \in Conns \ {c} : received[d] = <<>>) => buffer = head
            /\ received[c] = <<head, tail>> =>
                /\ Len(results[c]) = 1
                /\ IsPacketOf(results[c][1].parsed, f)
                /\ written[c] = <<AckMessage(parsePacket(f, 0).imei)>>

\* C4: a packet that parses with isValid = FALSE is no error: it is decoded
\* and acknowledged with (<imei>,BR00,OK) like any other parsed packet, so a
\* connection carries one acknowledgment per parsed packet, valid or not.
C4_InvalidChecksumStillAcked ==
    \A c \in Conns :
        /\ Len(written[c]) = Cardinality(ParsedOk(c))
        /\ \A i \in ParsedOk(c) :
               LET r == results[c][i]
               IN  ~r.parsed.isValid =>
                       /\ r.commandData =
                              parseCommandData(r.parsed.command, r.parsed.data, InstantOf(r))
                       /\ r.writes = <<AckMessage(r.parsed.imei)>>
                       /\ AckMessage(r.parsed.imei) \in Range(written[c])

C4_Witness ==
    \E c \in Conns : \E i \in ParsedOk(c) :
        /\ ~results[c][i].parsed.isValid
        /\ results[c][i].parsed.checksum # results[c][i].parsed.calculatedChecksum
        /\ written[c] = <<AckMessage(results[c][i].parsed.imei)>>

\* C5: a failed parse writes no acknowledgment and decodes nothing, and its
\* outcome carries one of the three error kinds with the data exactly as it
\* arrived (untrimmed).
C5_ParseErrorNoAckRawKept ==
    \A c \in Conns :
        /\ Len(results[c]) = Len(received[c])
        /\ Len(written[c]) = Len(results[c])
                               - Cardinality(DOMAIN results[c] \ ParsedOk(c))
        /\ \A i \in DOMAIN results[c] \ ParsedOk(c) :
               LET r == results[c][i]
               IN  /\ r.writes = <<>>
                   /\ r.commandData = NoData
                   /\ r.parsed.error \in ErrorKinds
                   /\ r.parsed.rawData = received[c][i]

C5_Witness ==
    \E c \in Conns :
        /\ Len(results[c]) = 3
        /\ ParsedOk(c) = {}
        /\ {results[c][i].parsed.error : i \in DOMAIN results[c]} = ErrorKinds
        /\ \E i \in DOMAIN results[c] :
               Trim(results[c][i].parsed.rawData) # results[c][i].parsed.rawData
        /\ written[c] = <<>>

\* C6: a data event never closes or disables its connection, whatever its
\* outcome: the connection is still open after it, and a well-formed frame
\* is parsed and acknowledged on it however many parse errors came before.
C6_ErrorsNeverEndSession ==
    [][\A c \in Conns :
           received'[c] # received[c] =>
               /\ conn'[c] = "open"
               /\ LET data == received'[c][Len(received'[c])]
                      r == results'[c][Len(results'[c])]
                  IN  data \in WellFormedFrames =>
                          /\ Len(results'[c]) = Len(results[c]) + 1
                          /\ IsPacketOf(r.parsed, data)
                          /\ written'[c] = Append(written[c], AckMessage(r.parsed.imei))]_vars

C6_Witness ==
    \E c \in Conns :
        /\ conn[c] = "open"
        /\ Len(results[c]) = 3
        /\ HasError(results[c][1].parsed)
        /\ HasError(results[c][2].parsed)
        /\ received[c][3] \in WellFormedFrames
        /\ ~HasError(results[c][3].parsed)
        /\ written[c] = <<AckMessage(results[c][3].parsed.imei)>>

\* The bytes of b that precede its first start marker (all of b without one).
UnpairedPrefix(b) ==
    IF IndexOf(b, PROTOCOL_START) = -1 THEN b ELSE SubSeq(b, 1, IndexOf(b, PROTOCOL_START))

\* C7: after any sequence of arrivals the parser's buffer holds no bytes
\* that precede a start marker, and never more than one arrival's worth of
\* bytes: nothing a sender without complete frames sends is kept.
C7_NoUnpairedBytesRetained ==
    /\ UnpairedPrefix(buffer) = <<>>
    /\ \E a \in Arrivals : Len(buffer) <= Len(a)

C7_Witness ==
    \E c \in Conns :
        /\ Len(received[c]) >= 2
        /\ \A i \in DOMAIN received[c] : IndexOf(received[c][i], PROTOCOL_START) = -1
        /\ buffer = <<>>

\* C8: the acknowledgments written on a connection are, in order, the
\* acknowledgments of the frames of its byte stream that parse.
C8_AcksInStreamOrder == \A c \in Conns : written[c] = ExpectedAcks(c)

\* The handler's outcome tabulated: for each arrival and capture instant, what
\* one run of the callback on that arrival alone produces.
Outcome == [data \in Arrivals |-> [t \in 0..MaxArrivals |-> HandleData(data, t)]]

\* C9: what a connection's handler produced and what was written to its
\* socket are determined by the data that arrived on that connection (and
\* the capture instants) alone, whatever arrived in between on the others.
C9_ConnectionsIndependent ==
    \A c \in Conns :
        /\ Len(results[c]) = Len(received[c])
        /\ \A i \in DOMAIN results[c] :
               results[c][i] = Outcome[received[c][i]][InstantOf(results[c][i])]
        /\ written[c] = Concat([i \in DOMAIN results[c] |-> results[c][i].writes])

C9_Witness ==
    /\ Len(results[1]) = 2
    /\ Len(results[2]) = 1
    /\ InstantOf(results[1][1]) < InstantOf(results[2][1])
    /\ InstantOf(results[2][1]) < InstantOf(results[1][2])
    /\ written[1] # <<>>
    /\ written[2] # <<>>
    /\ written[1][1] # written[2][1]

\* C10: a packet built by the simulator's sendPacket from a 15-digit IMEI, a
\* command and comma-free fields parses without error, with isValid = TRUE
\* and with the imei, command and fields it was built from.
C10_RoundTrip ==
    rt.pc = "done" =>
        /\ ~HasError(rt.result.parsed)
        /\ rt.result.parsed.isValid
        /\ rt.result.parsed.imei = rt.imei
        /\ rt.result.parsed.command = rt.command
        /\ rt.result.parsed.data = rt.fields

C10_Witness ==
    /\ rt.pc = "done"
    /\ Len(rt.fields) = MaxFields
    /\ <<PROTOCOL_END>> \in Range(rt.fields)
    /\ ~HasError(rt.result.parsed)
    /\ rt.result.parsed.isValid
    /\ rt.result.parsed.data = rt.fields

(***************************************************************************)
(* Checksum                                                                *)
(***************************************************************************)
HexChars == (48..57) \cup (65..70)

HexCharValue(ch) == IF ch \in 48..57 THEN ch - 48 ELSE ch - 55

\* The number a string of hex digits denotes.
RECURSIVE HexValueOf(_)
HexValueOf(s) ==
    IF s = <<>> THEN 0
    ELSE 16 * HexValueOf(SubSeq(s, 1, Len(s) - 1)) + HexCharValue(s[Len(s)])

RECURSIVE CodeSum(_)
CodeSum(s) == IF s = <<>> THEN 0 ELSE Head(s) + CodeSum(Tail(s))

\* C11: the checksum of every text is exactly 4 characters, each one of
\* 0-9 or A-F, and read as a hexadecimal number it is the sum of the text's
\* character codes modulo 65536; the simulator's function returns the same
\* string as the server's on the same text.
C11_ChecksumFourHexDigits ==
    /\ rt.pc \in {"server", "both"} =>
            /\ Len(rt.server) = 4
            /\ \A i \in 1..Len(rt.server) : rt.server[i] \in HexChars
            /\ HexValueOf(rt.server) = CodeSum(rt.text) % 65536
    /\ rt.pc = "both" => rt.sim = rt.server

\* A text whose sum passes 65535 and wraps to a value that needs padding.
C11_Witness ==
    /\ rt.pc = "both"
    /\ rt.text = <<65535, 10>>
    /\ rt.server = <<48, 48, 48, 57>>
    /\ rt.sim = <<48, 48, 48, 57>>

(***************************************************************************)
(* Parsing one text                                                        *)
(***************************************************************************)
FifteenAsciiDigits(part) == Len(part) = 15 /\ \A i \in 1..15 : part[i] \in 48..57

\* The text has both markers around its comma-separated parts.
PsDelimited == rt.open /\ rt.close

\* C12: for a delimited frame of at least 3 comma-separated parts, parsing
\* succeeds exactly when the first part is 15 ASCII digits; with any other
\* first part the outcome is the invalid-IMEI error, with no packet, no
\* decoded data and no acknowledgment.
C12_ImeiFifteenDigits ==
    (rt.pc = "handled" /\ PsDelimited /\ Len(rt.parts) >= 3) =>
        IF FifteenAsciiDigits(rt.parts[1])
        THEN /\ ~HasError(rt.result.parsed)
             /\ rt.result.parsed.imei = rt.parts[1]
        ELSE /\ HasError(rt.result.parsed)
             /\ rt.result.parsed.error = "Invalid IMEI format"
             /\ DOMAIN rt.result.parsed = {"error", "rawData", "timestamp"}
             /\ rt.result.commandData = NoData
             /\ rt.result.writes = <<>>

\* A 16-digit first part in a delimited frame of 3 parts is rejected.
C12_Witness ==
    /\ rt.pc = "handled" /\ PsDelimited /\ Len(rt.parts) = 3
    /\ rt.parts[1] = Imei1 \o <<48>>
    /\ HasError(rt.result.parsed)
    /\ rt.result.parsed.error = "Invalid IMEI format"

\* The outcome the order of the parser's checks prescribes for the text.
PsExpected ==
    IF ~PsDelimited THEN "Invalid packet format - missing start/end markers"
    ELSE IF Len(rt.parts) < 3 THEN "Invalid packet format - insufficient data"
    ELSE IF ~FifteenAsciiDigits(rt.parts[1]) THEN "Invalid IMEI format"
    ELSE "packet"

\* C13: a text without the start or the end marker fails with the
\* missing-markers error whatever it contains; a delimited text of fewer
\* than 3 parts fails with the insufficient-data error even when its first
\* part is no IMEI; the invalid-IMEI error occurs only for delimited texts
\* of at least 3 parts; and every text yields either a packet or exactly
\* one of these three errors.
C13_ErrorsInCheckOrder ==
    rt.pc = "handled" =>
        IF HasError(rt.result.parsed)
        THEN /\ rt.result.parsed.error \in ErrorKinds
             /\ rt.result.parsed.error = PsExpected
             /\ "imei" \notin DOMAIN rt.result.parsed
        ELSE /\ PsExpected = "packet"
             /\ "imei" \in DOMAIN rt.result.parsed

\* A delimited text of two parts whose first part is not an IMEI.
C13_Witness ==
    /\ rt.pc = "handled" /\ PsDelimited /\ Len(rt.parts) = 2
    /\ ~FifteenAsciiDigits(rt.parts[1])
    /\ HasError(rt.result.parsed)
    /\ rt.result.parsed.error = "Invalid packet format - insufficient data"

\* C14: a delimited frame of at least 3 parts with a valid IMEI and a
\* command that is not an entry of the command table parses without error,
\* is named "Unknown", decodes to its fields unchanged as raw data, and is
\* acknowledged.
C14_UnknownCommandAccepted ==
    (/\ rt.pc = "handled" /\ PsDelimited /\ Len(rt.parts) >= 3
     /\ FifteenAsciiDigits(rt.parts[1])
     /\ rt.parts[2] \notin DOMAIN COMMAND_TYPES) =>
        /\ ~HasError(rt.result.parsed)
        /\ rt.result.parsed.commandName = "Unknown"
        /\ rt.result.commandData =
               [kind |-> "Raw", rawData |-> SubSeq(rt.parts, 3, Len(rt.parts) - 1)]
        /\ rt.result.writes = <<AckMessage(rt.parts[1])>>

\* C16: in every parsed packet the imei is the first part, the command the
\* second, the checksum the last, and the fields are the parts between, in
\* their order: 3 fewer than the parts, none when there are exactly 3.
C16_FieldsBetweenCommandAndChecksum ==
    (rt.pc = "handled" /\ ~HasError(rt.result.parsed)) =>
        LET packet == rt.result.parsed
            n == Len(rt.parts)
        IN  /\ packet.imei = rt.parts[1]
            /\ packet.command = rt.parts[2]
            /\ packet.checksum = rt.parts[n]
            /\ Len(packet.data) = n - 3
            /\ \A i \in 1..(n - 3) : packet.data[i] = rt.parts[i + 2]

\* Five parts: two different fields, in order; and three parts: no field.
C16_Witness ==
    /\ rt.pc = "handled" /\ ~HasError(rt.result.parsed)
    /\ Len(rt.parts) = 5
    /\ rt.result.parsed.data = <<BP(0, 0), <<>> >>
    /\ rt.result.parsed.isValid

(***************************************************************************)
(* Decoding one command                                                    *)
(***************************************************************************)
\* The members of a payload that the decoders compute as numbers.
NumericMembers(payload) ==
    CASE payload.kind = "Position" ->
             {"latitude", "longitude", "speed", "course", "altitude", "satellites", "hdop"}
      [] payload.kind = "GPS" -> {"satelliteCount", "signalStrength", "accuracy"}
      [] payload.kind = "LBS" -> {"signalStrength"}
      [] payload.kind = "Step" -> {"stepCount", "calories", "distance"}
      [] payload.kind = "HeartRate" -> {"heartRate"}
      [] OTHER -> {}

\* C15: for every command and every field array the decoder returns a
\* payload, and every numeric member of the payload, latitude and longitude
\* included, is a number: never NaN, a field that is missing or does not
\* parse giving 0.
C15_DecodedNumbersNeverNaN ==
    rt.pc = "decoded" =>
        \A m \in NumericMembers(rt.payload) : ~IsNaN(rt.payload[m])

\* C17: the position decoder returns the raw fields exactly when there are
\* fewer than 10 of them; with 10 or more it returns a position whose gpsFix
\* is "Valid" exactly when the second field is 'A'; with exactly 10 fields
\* hdop is 0.
C17_PositionNeedsTenFields ==
    (rt.pc = "decoded" /\ rt.command = BP(0, 2)) =>
        /\ rt.payload.kind = "Raw" <=> Len(rt.fields) < 10
        /\ Len(rt.fields) < 10 => rt.payload = [kind |-> "Raw", rawData |-> rt.fields]
        /\ Len(rt.fields) >= 10 =>
               /\ rt.payload.kind = "Position"
               /\ rt.payload.gpsFix \in {"Valid", "Invalid"}
               /\ rt.payload.gpsFix = "Valid" <=> rt.fields[2] = <<65>>
        /\ Len(rt.fields) = 10 => rt.payload.hdop = Zero

\* Exactly 10 fields with a fix: a position with a speed and hdop 0.
C17_Witness ==
    /\ rt.pc = "decoded" /\ rt.command = BP(0, 2)
    /\ Len(rt.fields) = 10
    /\ rt.payload.kind = "Position"
    /\ rt.payload.gpsFix = "Valid"
    /\ rt.payload.speed = Rat(91, 2)
    /\ rt.payload.hdop = Zero

(***************************************************************************)
(* The handler, arrival by arrival                                         *)
(***************************************************************************)
\* C18: every arrival on a connection is handled as one candidate packet:
\* it has one parse outcome and at most one acknowledgment, so that after n
\* arrivals on a connection at most n acknowledgments were written on it.
C18_AtMostOneAckPerArrival ==
    \A c \in Conns :
        /\ Len(results[c]) = Len(received[c])
        /\ \A i \in DOMAIN results[c] : Len(results[c][i].writes) <= 1
        /\ Len(written[c]) <= Len(received[c])

\* One arrival that holds two complete frames, and one acknowledgment.
C18_Witness ==
    \E c \in Conns :
        /\ received[c] = <<LoginFrame \o HeartbeatFrame>>
        /\ Len(results[c]) = 1
        /\ Len(written[c]) = 1

\* The characters of a text between its first start marker and its first comma.
FirstPartOf(data) == SubSeq(data, IndexOf(data, 40) + 2, IndexOf(data, 44))

AckText(digits) == <<40>> \o digits \o <<44, 66, 82, 48, 48, 44, 79, 75, 41>>

\* C19: whenever the handler writes to a socket it writes one text of the
\* form '(' 15 ASCII digits ',BR00,OK)', and the digits are the first
\* comma-separated part of the arrival it is handling on that socket: not
\* a part that failed the IMEI check, not the IMEI of an earlier arrival.
C19_AckNamesArrivalsImei ==
    [][\A c \in Conns :
          written'[c] # written[c] =>
              /\ Len(received'[c]) = Len(received[c]) + 1
              /\ LET arrival == received'[c][Len(received'[c])]
                 IN  /\ FifteenAsciiDigits(FirstPartOf(arrival))
                     /\ written'[c] = Append(written[c], AckText(FirstPartOf(arrival)))]_vars

\* Acknowledgments to two devices on one connection, each naming its own.
C19_Witness ==
    \E c \in Conns :
        /\ received[c] = <<LoginFrame, BadChecksumFrame \o CrLf>>
        /\ written[c] = <<AckText(Imei1), AckText(Imei2)>>

\* A parse outcome without its capture instant.
Untimed(parsedPacket) ==
    [k \in DOMAIN parsedPacket \ {"timestamp"} |-> parsedPacket[k]]

\* C20: the shared parser carries nothing from one call to the next: its
\* buffer is empty after any sequence of arrivals, and the same text gives
\* the same parse outcome, decoded data and writes (the capture instant
\* aside) wherever it arrives and whatever arrived before it, on its own
\* or on another connection.
C20_ParserStateless ==
    /\ buffer = <<>>
    /\ \A c, d \in Conns : \A i \in DOMAIN results[c] : \A j \in DOMAIN results[d] :
           received[c][i] = received[d][j] =>
               /\ Untimed(results[c][i].parsed) = Untimed(results[d][j].parsed)
               /\ results[c][i].commandData = results[d][j].commandData
               /\ results[c][i].writes = results[d][j].writes

\* The same frame first on a fresh parser and again after a rejected text
\* arrived on the other connection.
C20_Witness ==
    /\ received[1] = <<LoginFrame, LoginFrame>>
    /\ received[2] = <<ShortImeiFrame>>
    /\ Len(results[1]) = 2 /\ Len(results[2]) = 1
    /\ InstantOf(results[1][1]) < InstantOf(results[2][1])
    /\ InstantOf(results[2][1]) < InstantOf(results[1][2])
    /\ ~HasError(results[1][2].parsed)
    /\ buffer = <<>>

====
